---- MODULE Spec2Model ----
(***************************************************************************)
(* borg_slurm and borg_systemd: two command-line wrappers that load a      *)
(* tab-delimited configuration into the process environment, run           *)
(* `borg create`, `borg prune` and `borg list` as subprocesses and mail    *)
(* the captured output.  One behaviour of Spec is one run of main() of     *)
(* one of the two scripts.                                                 *)
(*                                                                         *)
(* Text (str and bytes) is a sequence of string atoms; concatenation is    *)
(* \o.  A dict is a function whose DOMAIN is its key set.  The time        *)
(* stamps that main() formats into mail subjects and bodies (start_time,   *)
(* end_time) are not modelled; the clock reading used for the archive      *)
(* name is.                                                                *)
(***************************************************************************)
EXTENDS Integers, Sequences, FiniteSets, TLC

\* ------------------------------------------------------------------ bounds

\* longest configuration file, in rows
MaxRows == 2
\* largest exit code a subprocess returns
MaxCode == 2
\* last day of the clock readings
MaxDay == 1

\* --------------------------------------------------------- python helpers

\* Python's None; no text the model draws equals it
None == <<"<None>">>

\* the empty dict
EmptyDict == [k \in {} |-> <<>>]

\* d[k] = v on a dict
DictSet(d, k, v) == [x \in (DOMAIN d) \cup {k} |-> IF x = k THEN v ELSE d[x]]

\* x in l, for a list l
InList(x, l) == \E i \in 1..Len(l) : l[i] = x

\* index of the first sep in s, 0 when there is none
FirstIndex(s, sep) ==
    IF \E i \in 1..Len(s) : s[i] = sep
    THEN CHOOSE i \in 1..Len(s) : s[i] = sep /\ \A j \in 1..(i - 1) : s[j] # sep
    ELSE 0

RECURSIVE split(_, _)
\* str.split(sep): ''.split(',') is [''], 'a,b'.split(',') is ['a', 'b']
split(s, sep) ==
    LET i == FirstIndex(s, sep)
    IN  IF i = 0
        THEN <<s>>
        ELSE <<SubSeq(s, 1, i - 1)>> \o split(SubSeq(s, i + 1, Len(s)), sep)

\* a nested list element: a str leaf or a list of elements
Str(s) == [tag |-> "str", val |-> s]
List(l) == [tag |-> "list", val |-> l]

RECURSIVE flatten_list(_)
\* flatten_list: depth-first, strings are leaves
flatten_list(l) ==
    IF Len(l) = 0
    THEN <<>>
    ELSE LET x == Head(l)
         IN  (IF x.tag = "list" THEN flatten_list(x.val) ELSE <<x.val>>)
             \o flatten_list(Tail(l))

Digits == {"0", "1", "2", "3", "4", "5", "6", "7", "8", "9"}

RECURSIVE DigitRun(_)
\* the longest prefix of s made of digits
DigitRun(s) ==
    IF Len(s) > 0 /\ Head(s) \in Digits
    THEN <<Head(s)>> \o DigitRun(Tail(s))
    ELSE <<>>

RECURSIVE regex_search_digits(_)
\* re.compile(b'\d+').search(s): the first run of digits, None without one
regex_search_digits(s) ==
    IF Len(s) = 0
    THEN None
    ELSE IF Head(s) \in Digits
         THEN DigitRun(s)
         ELSE regex_search_digits(Tail(s))

\* ------------------------------------------------------------ the scripts

Variants == {"borg_slurm", "borg_systemd"}

\* allowed_variables of each script
allowed_variables(v) ==
    IF v = "borg_slurm"
    THEN << <<"BORG_BASE">>, <<"BORG_EXCLUDE">>, <<"BORG_PASSPHRASE">>,
            <<"BORG_PATH">>, <<"BORG_REMOTE_PATH">>, <<"BORG_REPO">>,
            <<"BORG_RSH">> >>
    ELSE << <<"BORG_BASE">>, <<"BORG_EXCLUDE">>, <<"BORG_PASSPHRASE">>,
            <<"BORG_PATH">>, <<"BORG_REMOTE_PATH">>, <<"BORG_REPO">>,
            <<"BORG_RSH">>, <<"BORG_HOST_ID">> >>

\* job_name of borg_slurm
job_name == <<"borgbackup">>

\* os.getenv(k) on the environment env
getenv(env, k) == IF k \in DOMAIN env THEN env[k] ELSE None

\* a loader that does not look at allowed_variables
RECURSIVE set_borg_environment_mut_noallow(_, _, _)
set_borg_environment_mut_noallow(rows, allowed, env) ==
    IF Len(rows) = 0
    THEN [environ |-> env, raised |-> "none"]
    ELSE LET row == Head(rows)
         IN  IF Len(row) < 2
             THEN [environ |-> env, raised |-> "IndexError"]
             ELSE set_borg_environment_mut_noallow(
                      Tail(rows), allowed, DictSet(env, row[1], row[2]))

RECURSIVE set_borg_environment_from(_, _, _, _)
\* a loader that gives back the environment orig it started from when a row
\* is refused
set_borg_environment_from(rows, allowed, env, orig) ==
    IF Len(rows) = 0
    THEN [environ |-> env, raised |-> "none"]
    ELSE LET row == Head(rows)
         IN  IF Len(row) < 1
             THEN [environ |-> env, raised |-> "IndexError"]
             ELSE IF InList(row[1], allowed)
                  THEN IF Len(row) < 2
                       THEN [environ |-> env, raised |-> "IndexError"]
                       ELSE set_borg_environment_from(
                                Tail(rows), allowed,
                                DictSet(env, row[1], row[2]), orig)
                  ELSE [environ |-> orig, raised |-> "ValueError"]

\* a loader that rolls a refused load back
set_borg_environment_mut_rollback(rows, allowed, env) ==
    set_borg_environment_from(rows, allowed, env, env)

RECURSIVE set_borg_environment(_, _, _)
\* the csv rows applied to the environment one by one, in file order; the
\* first row that is too short (row[0], row[1]) or whose key is not allowed
\* raises and ends the loop, with the earlier assignments kept
set_borg_environment(rows, allowed, env) ==
    IF Len(rows) = 0
    THEN [environ |-> env, raised |-> "none"]
    ELSE LET row == Head(rows)
         IN  IF Len(row) < 1
             THEN [environ |-> env, raised |-> "IndexError"]
             ELSE IF InList(row[1], allowed)
                  THEN IF Len(row) < 2
                       THEN [environ |-> env, raised |-> "IndexError"]
                       ELSE set_borg_environment(
                                Tail(rows), allowed, DictSet(env, row[1], row[2]))
                  ELSE [environ |-> env, raised |-> "ValueError"]

\* ------------------------------------------------------------ archive name

RECURSIVE Pad(_, _)
\* n in decimal, zero-padded to w digits
Pad(n, w) == IF w = 0 THEN <<>> ELSE Pad(n \div 10, w - 1) \o <<ToString(n % 10)>>

\* datetime.isoformat(sep): the fraction is printed only when it is not zero
isoformat(t, sep) ==
    Pad(t.year, 4) \o <<"-">> \o Pad(t.month, 2) \o <<"-">> \o Pad(t.day, 2)
    \o <<sep>>
    \o Pad(t.hour, 2) \o <<":">> \o Pad(t.minute, 2) \o <<":">> \o Pad(t.second, 2)
    \o (IF t.microsecond # 0 THEN <<".">> \o Pad(t.microsecond, 6) ELSE <<>>)

\* a now() that keeps the seconds in both scripts
now_mut_keep_second(v, t) == isoformat([t EXCEPT !.microsecond = 0], "_")

\* now(): borg_slurm clears the microseconds and the seconds of the clock
\* reading t, borg_systemd only the microseconds
now(v, t) ==
    IF v = "borg_slurm"
    THEN isoformat([t EXCEPT !.microsecond = 0, !.second = 0], "_")
    ELSE isoformat([t EXCEPT !.microsecond = 0], "_")

\* generate_archive_name(): '_'.join([now(), gethostname()])
generate_archive_name(v, t, host) == now(v, t) \o <<"_">> \o host

\* ----------------------------------------------------------- command lines

\* the salloc prefix borg_slurm puts before borg
salloc_prefix(v) ==
    IF v = "borg_slurm"
    THEN <<Str(<<"salloc">>), Str(<<"--job-name=">> \o job_name),
           Str(<<"--cpus-per-task=1">>), Str(<<"--nice=1">>)>>
    ELSE <<>>

\* the fixed flags of borg create
create_flags(v) ==
    <<Str(<<"--verbose">>), Str(<<"--compression">>), Str(<<"auto,lz4">>)>>
    \o (IF v = "borg_systemd"
        THEN <<Str(<<"--lock-wait">>), Str(<<"600">>)>>
        ELSE <<>>)

\* borg_command of run_backup
borg_command(v, path_list, exclude_list, archive_name) ==
    flatten_list(
        salloc_prefix(v)
        \o <<Str(<<"borg">>), Str(<<"create">>)>>
        \o create_flags(v)
        \o <<List([i \in 1..Len(exclude_list) |->
                     List(<<Str(<<"--exclude">>), Str(exclude_list[i])>>)])>>
        \o <<Str(archive_name)>>
        \o <<List([i \in 1..Len(path_list) |-> Str(path_list[i])])>>)

\* prune_command of prune_backup
prune_command(v) ==
    flatten_list(
        salloc_prefix(v)
        \o <<Str(<<"borg">>), Str(<<"prune">>),
             Str(<<"--verbose">>), Str(<<"--list">>), Str(<<"--stats">>)>>
        \o (IF v = "borg_systemd"
            THEN <<Str(<<"--lock-wait">>), Str(<<"600">>)>>
            ELSE <<>>)
        \o <<Str(<<"--keep-within=1d">>), Str(<<"--keep-daily=7">>),
             Str(<<"--keep-weekly=4">>), Str(<<"--keep-monthly=3">>)>>)

\* list_command of list_borg_backups
list_command == flatten_list(<<Str(<<"borg">>), Str(<<"list">>)>>)

\* the squeue command of check_for_borg_job
squeue_command(name) == << <<"squeue">>, <<"-n">>, name, <<"-o">>, <<"%A">> >>

\* ------------------------------------------------------------ attachments

\* the captured streams send_borg_results looks at, in its order, each with
\* the name of its attachment file
Streams ==
    << <<"err_bytes", <<"borgbackup.err.txt">> >>,
       <<"out_bytes", <<"borgbackup.out.txt">> >>,
       <<"prune_out", <<"prune.out.txt">> >>,
       <<"prune_err", <<"prune.err.txt">> >> >>

RECURSIVE write_attachments(_, _, _, _)
\* the four `if key in borg_results` blocks of send_borg_results from block
\* i on.  borg_systemd tests len(bytes) > 0 and writes the file; borg_slurm
\* evaluates bytes > 0 inside len(), which raises TypeError
write_attachments(v, borg_results, i, acc) ==
    IF i > Len(Streams)
    THEN acc
    ELSE LET key == Streams[i][1]
             file == Streams[i][2]
         IN  IF key \notin DOMAIN borg_results
             THEN write_attachments(v, borg_results, i + 1, acc)
             ELSE IF v = "borg_slurm"
                  THEN [acc EXCEPT !.raised = "TypeError"]
                  ELSE IF Len(borg_results[key]) > 0
                       THEN write_attachments(v, borg_results, i + 1,
                                [files |-> DictSet(acc.files, file, borg_results[key]),
                                 attachment_list |-> Append(acc.attachment_list, file),
                                 raised |-> "none"])
                       ELSE write_attachments(v, borg_results, i + 1, acc)

\* str.rstrip('\n') of one line
rstrip_newline(line) ==
    IF Len(line) > 0 /\ line[Len(line)] = "\n"
    THEN SubSeq(line, 1, Len(line) - 1)
    ELSE line

\* ------------------------------------------------------------------ inputs

\* host names of the machine
Hosts == {<<"alpha">>, <<"beta">>}

\* the host a run of main() is on
RunHosts == {<<"alpha">>}

\* rows csv.reader yields from a configuration file: an empty row (a blank
\* line), a row with a key and no value, and rows with a key and a value
ConfigRows ==
    { <<>>,
      << <<"BORG_BASE">> >>,
      << <<"BORG_BASE">>, <<"/b">> >>,
      << <<"BORG_PATH">>, <<"p">> >>,
      << <<"BORG_PATH">>, <<"p", ",", "q">> >>,
      << <<"BORG_EXCLUDE">>, <<>> >>,
      << <<"BORG_EXCLUDE">>, <<"a">> >>,
      << <<"BORG_EXCLUDE">>, <<"a", ",", "b">> >>,
      << <<"BORG_HOST_ID">>, <<"h">> >>,
      << <<"HOME">>, <<"h">> >> }

\* configuration files of at most MaxRows rows
ConfigFiles == UNION {[1..n -> ConfigRows] : n \in 0..MaxRows}

\* the environment the process inherits: empty of borg settings, or with
\* settings exported by the caller
InheritedEnvirons ==
    { EmptyDict,
      [k \in {<<"BORG_BASE">>, <<"BORG_PATH">>, <<"BORG_EXCLUDE">>} |->
          IF k = <<"BORG_BASE">> THEN <<"/r">>
          ELSE IF k = <<"BORG_PATH">> THEN <<"r">>
          ELSE <<"x">>] }

\* exit codes of a subprocess
ReturnCodes == 0..MaxCode

\* bytes a borg subprocess writes to stdout
OutBytes == {<<>>, <<"o">>}

\* bytes a borg subprocess writes to stderr; salloc prints the job id there
ErrBytes == {<<>>, <<"e">>, <<"job", "7">>}

\* what borg list leaves on stdout and stderr: a listing, or an error
ListOutputs == {[out |-> <<"o">>, err |-> <<>>], [out |-> <<>>, err |-> <<"e">>]}

\* what squeue prints: nothing, the header alone, the header and a job id
SqueueOut == {<<>>, <<"JOBID", "\n">>, <<"JOBID", "\n", "7", "\n">>}

\* ~/.forward: missing, empty, or holding an address on its first line
ForwardFiles ==
    { [exists |-> FALSE, lines |-> <<>>],
      [exists |-> TRUE, lines |-> <<>>],
      [exists |-> TRUE, lines |-> << <<"me@example.org", "\n">> >>] }

\* clock readings
ClockReadings ==
    [year : {2019}, month : {1}, day : 1..(1 + MaxDay), hour : {0, 23},
     minute : {0, 1, 59}, second : {0, 30, 59}, microsecond : {0, 999999}]

\* the clock readings a run of main() draws the archive time from
RunClock ==
    {t \in ClockReadings :
        /\ t.day = 1 /\ t.hour = 23 /\ t.minute = 59
        /\ t.second \in {30, 59} /\ t.microsecond = 999999}

\* ------------------------------------------------------------------- state

VARIABLES
    variant,          \* which script runs
    hostname,         \* socket.gethostname()
    config,           \* the rows of the configuration file
    environ,          \* os.environ
    pc,               \* where main() is
    borg_path,        \* main's borg_path
    borg_exclude,     \* main's borg_exclude
    borg_base,        \* main's borg_base
    running_backup,   \* main's running_backup, (active, jobid)
    results,          \* main's results dict
    current_backups,  \* main's current_backups
    my_addr,          \* main's my_addr
    notice,           \* subject and text of the send_borg_results call
    attachment_list,  \* send_borg_results' attachment_list
    tmpfiles,         \* the files in the temporary directory, name -> bytes
    calls,            \* the subprocesses run so far, with what they returned
    mails,            \* the messages handed to send_mail so far
    trace,            \* the external steps started so far
    raised,           \* the exception that ended main, "none" otherwise
    exit_code,        \* the exit status of the process, Running before
    readings,         \* two clock readings
    archive_names     \* the archive names generated at the two readings

vars ==
    <<variant, hostname, config, environ, pc, borg_path, borg_exclude,
      borg_base, running_backup, results, current_backups, my_addr, notice,
      attachment_list, tmpfiles, calls, mails, trace, raised, exit_code,
      readings, archive_names>>

\* exit_code while the process runs
Running == 0 - 1

\* the exit status of an uncaught exception
UncaughtExit == 1

\* main()'s locals before it assigns them
InitLocals ==
    /\ borg_path = <<>>
    /\ borg_exclude = <<>>
    /\ borg_base = None
    /\ running_backup = <<FALSE, <<>>>>
    /\ results = EmptyDict
    /\ current_backups = <<>>
    /\ my_addr = None
    /\ notice = EmptyDict
    /\ attachment_list = <<>>
    /\ tmpfiles = EmptyDict
    /\ calls = <<>>
    /\ mails = <<>>
    /\ trace = <<>>
    /\ raised = "none"
    /\ exit_code = Running

\* a process of either script about to call main()
Init ==
    /\ variant \in Variants
    /\ hostname \in RunHosts
    /\ config \in ConfigFiles
    /\ environ \in InheritedEnvirons
    /\ pc = "start"
    /\ InitLocals
    /\ readings = <<>>
    /\ archive_names = <<>>

\* an uncaught exception e ends the process
Raise(e) ==
    /\ raised' = e
    /\ exit_code' = UncaughtExit
    /\ pc' = "done"

\* sys.exit(code), or main() returning (code 0)
Exit(code) ==
    /\ raised' = raised
    /\ exit_code' = code
    /\ pc' = "done"

\* main() goes on to its step p
Goto(p) ==
    /\ raised' = raised
    /\ exit_code' = exit_code
    /\ pc' = p

\* main: set_borg_environment(args['config'], allowed_variables)
SetBorgEnvironment ==
    /\ pc = "start"
    /\ LET r == set_borg_environment(config, allowed_variables(variant), environ)
       IN  /\ environ' = r.environ
           /\ IF r.raised # "none" THEN Raise(r.raised) ELSE Goto("variables")
    /\ UNCHANGED <<variant, hostname, config, borg_path, borg_exclude,
                   borg_base, running_backup, results, current_backups,
                   my_addr, notice, attachment_list, tmpfiles, calls, mails,
                   trace, readings, archive_names>>

\* main: borg_path, borg_exclude and borg_base read from the environment;
\* os.getenv gives None for an unset variable, and None has no split
ReadVariables ==
    /\ pc = "variables"
    /\ IF getenv(environ, <<"BORG_PATH">>) = None
          \/ getenv(environ, <<"BORG_EXCLUDE">>) = None
       THEN /\ Raise("AttributeError")
            /\ UNCHANGED <<borg_path, borg_exclude, borg_base>>
       ELSE /\ borg_path' = split(getenv(environ, <<"BORG_PATH">>), ",")
            /\ borg_exclude' = split(getenv(environ, <<"BORG_EXCLUDE">>), ",")
            /\ borg_base' = getenv(environ, <<"BORG_BASE">>)
            /\ Goto(IF variant = "borg_slurm" THEN "probe" ELSE "log")
    /\ UNCHANGED <<variant, hostname, config, environ, running_backup,
                   results, current_backups, my_addr, notice,
                   attachment_list, tmpfiles, calls, mails, trace, readings,
                   archive_names>>

\* main (borg_systemd): config_log(log_dir); RotatingFileHandler opens the
\* log file at once and raises when the directory cannot be written
ConfigLog ==
    /\ pc = "log"
    /\ \E writable \in BOOLEAN :
          IF writable THEN Goto("backup") ELSE Raise("FileNotFoundError")
    /\ UNCHANGED <<variant, hostname, config, environ, borg_path,
                   borg_exclude, borg_base, running_backup, results,
                   current_backups, my_addr, notice, attachment_list,
                   tmpfiles, calls, mails, trace, readings, archive_names>>

\* a probe that takes a squeue output without a second line for no job
CheckForBorgJob_no_line_no_job ==
    /\ pc = "probe"
    /\ \E out \in SqueueOut :
          LET lines == split(out, "\n")
              jobid == IF Len(lines) < 2 THEN <<>> ELSE lines[2]
          IN  /\ calls' = Append(calls,
                     [op |-> "squeue", argv |-> squeue_command(job_name),
                      out |-> out])
              /\ trace' = Append(trace, "probe")
              /\ running_backup' = <<jobid # <<>>, jobid>>
              /\ Goto(IF jobid # <<>> THEN "warn" ELSE "backup")
    /\ UNCHANGED <<variant, hostname, config, environ, borg_path,
                   borg_exclude, borg_base, results, current_backups,
                   my_addr, notice, attachment_list, tmpfiles, mails,
                   readings, archive_names>>

\* main (borg_slurm): running_backup = check_for_borg_job(job_name); the job
\* id is the second line of what squeue printed
CheckForBorgJob ==
    /\ pc = "probe"
    /\ \E out \in SqueueOut :
          LET lines == split(out, "\n")
          IN  /\ calls' = Append(calls,
                     [op |-> "squeue", argv |-> squeue_command(job_name),
                      out |-> out])
              /\ trace' = Append(trace, "probe")
              /\ IF Len(lines) < 2
                 THEN /\ Raise("IndexError")
                      /\ UNCHANGED running_backup
                 ELSE /\ running_backup' = <<lines[2] # <<>>, lines[2]>>
                      /\ Goto(IF lines[2] # <<>> THEN "warn" ELSE "backup")
    /\ UNCHANGED <<variant, hostname, config, environ, borg_path,
                   borg_exclude, borg_base, results, current_backups,
                   my_addr, notice, attachment_list, tmpfiles, mails,
                   readings, archive_names>>

\* the subjects and texts main() mails, without their time stamps
warning_subject ==
    <<"[Tom@SLURM] Backup WARNING: script still in squeue after two hours">>

warning_text(name, jobid) ==
    <<"Job ">> \o name \o <<" found with job_id ">> \o jobid

failed_subject(v, code) ==
    <<IF v = "borg_slurm" THEN "[Tom@SLURM] " ELSE "[borg-systemd] ",
      "Backup WARNING: script failed with return_code ", ToString(code)>>

failed_text(v) ==
    IF v = "borg_slurm" THEN None ELSE <<"Backups started at ", " failed.">>

finished_subject(v) ==
    <<IF v = "borg_slurm" THEN "[Tom@SLURM] " ELSE "[borg-systemd] ",
      "Backup script finished at ">>

finished_text(backups) ==
    <<"Backups started at ", " finished. Logs are attached.",
      "\n\n", "Current backups:", "\n">> \o backups

\* send_mail: the message handed to mail(1) (borg_slurm, to the host name)
\* or to the local SMTP relay (borg_systemd, to address), each attachment
\* with the bytes its file holds then
send_mail(v, subject, text, attachments, files, address, host, ok) ==
    [subject |-> subject,
     text |-> text,
     attachments |-> [i \in 1..Len(attachments) |->
                        [filename |-> attachments[i],
                         content |-> files[attachments[i]]]],
     to |-> IF v = "borg_slurm" THEN host ELSE address,
     delivered |-> ok]

\* an active-job branch that mails the warning and goes on to the backup
SendWarning_no_exit ==
    /\ pc = "warn"
    /\ \E ok \in BOOLEAN :
          mails' = Append(mails,
              send_mail(variant, warning_subject,
                        warning_text(job_name, running_backup[2]),
                        <<>>, EmptyDict, None, hostname, ok))
    /\ trace' = Append(trace, "notify")
    /\ Goto("backup")
    /\ UNCHANGED <<variant, hostname, config, environ, borg_path,
                   borg_exclude, borg_base, running_backup, results,
                   current_backups, my_addr, notice, attachment_list,
                   tmpfiles, calls, readings, archive_names>>

\* main (borg_slurm): a job is active: send_mail(subject, text); sys.exit(0).
\* mail(1)'s own exit status is not read
SendWarning ==
    /\ pc = "warn"
    /\ \E ok \in BOOLEAN :
          mails' = Append(mails,
              send_mail(variant, warning_subject,
                        warning_text(job_name, running_backup[2]),
                        <<>>, EmptyDict, None, hostname, ok))
    /\ trace' = Append(trace, "notify")
    /\ Exit(0)
    /\ UNCHANGED <<variant, hostname, config, environ, borg_path,
                   borg_exclude, borg_base, running_backup, results,
                   current_backups, my_addr, notice, attachment_list,
                   tmpfiles, calls, readings, archive_names>>

\* the dict run_backup returns
run_backup_result(v, code, out, err) ==
    IF v = "borg_slurm"
    THEN [k \in {"job_id", "return_code", "out_bytes", "err_bytes"} |->
            CASE k = "job_id" -> regex_search_digits(err)
              [] k = "return_code" -> code
              [] k = "out_bytes" -> out
              [] OTHER -> err]
    ELSE [k \in {"return_code", "out_bytes", "err_bytes"} |->
            CASE k = "return_code" -> code
              [] k = "out_bytes" -> out
              [] OTHER -> err]

\* main: results = run_backup(borg_path, borg_exclude, borg_base, ...): borg
\* create runs to its end in borg_base; borg_slurm then takes the job id
\* from stderr, and a stderr without digits raises (None has no group)
RunBackup ==
    /\ pc = "backup"
    /\ \E t \in RunClock, code \in ReturnCodes, out \in OutBytes, err \in ErrBytes :
          LET archive_name == <<"::">> \o generate_archive_name(variant, t, hostname)
          IN  /\ calls' = Append(calls,
                     [op |-> "create",
                      argv |-> borg_command(variant, borg_path, borg_exclude,
                                            archive_name),
                      cwd |-> borg_base,
                      returncode |-> code, out |-> out, err |-> err])
              /\ IF variant = "borg_slurm" /\ regex_search_digits(err) = None
                 THEN /\ Raise("AttributeError")
                      /\ UNCHANGED results
                 ELSE /\ results' = run_backup_result(variant, code, out, err)
                      /\ Goto(IF variant = "borg_slurm" THEN "check" ELSE "address")
    /\ trace' = Append(trace, "create")
    /\ UNCHANGED <<variant, hostname, config, environ, borg_path,
                   borg_exclude, borg_base, running_backup, current_backups,
                   my_addr, notice, attachment_list, tmpfiles, mails,
                   readings, archive_names>>

\* main (borg_systemd): my_addr = find_email_address(): the first line of
\* ~/.forward; a missing file raises FileNotFoundError, an empty one
\* IndexError
FindEmailAddress ==
    /\ pc = "address"
    /\ \E f \in ForwardFiles :
          IF ~f.exists
          THEN Raise("FileNotFoundError") /\ UNCHANGED my_addr
          ELSE IF Len(f.lines) = 0
               THEN Raise("IndexError") /\ UNCHANGED my_addr
               ELSE my_addr' = rstrip_newline(f.lines[1]) /\ Goto("check")
    /\ UNCHANGED <<variant, hostname, config, environ, borg_path,
                   borg_exclude, borg_base, running_backup, results,
                   current_backups, notice, attachment_list, tmpfiles, calls,
                   mails, trace, readings, archive_names>>

\* a main() without the failure short-circuit
backup_failed_never(res) == FALSE

\* main: if results['return_code'] != 0
backup_failed(res) == res["return_code"] # 0

\* a temporary directory removed only on the way out by return
tmpdir_kept_on_error(files, ok) == IF ok THEN EmptyDict ELSE files

\* the files left when `with tempfile.TemporaryDirectory()` is left, by a
\* return (ok) or by an exception: the directory is removed with all in it
tmpdir_after_exit(files, ok) == EmptyDict

\* send_borg_results up to its call of send_mail: inside the temporary
\* directory, one file per captured stream that is present and not empty; an
\* exception leaves the with block, removes the directory and ends main
SendBorgResults(subject, text) ==
    LET w == write_attachments(variant, results, 1,
                 [files |-> EmptyDict, attachment_list |-> <<>>,
                  raised |-> "none"])
    IN  /\ notice' = [subject |-> subject, text |-> text]
        /\ trace' = Append(trace, "notify")
        /\ IF w.raised # "none"
           THEN /\ tmpfiles' = tmpdir_after_exit(w.files, FALSE)
                /\ attachment_list' = w.attachment_list
                /\ Raise(w.raised)
           ELSE /\ tmpfiles' = w.files
                /\ attachment_list' = w.attachment_list
                /\ Goto("mail")

\* main: the backup failed: send_borg_results(results, subject[, text])
NotifyFailure ==
    /\ pc = "check"
    /\ backup_failed(results)
    /\ SendBorgResults(failed_subject(variant, results["return_code"]),
                       failed_text(variant))
    /\ UNCHANGED <<variant, hostname, config, environ, borg_path,
                   borg_exclude, borg_base, running_backup, results,
                   current_backups, my_addr, calls, mails, readings,
                   archive_names>>

\* main: prune_results = prune_backup(borg_base[, job_name]), merged into
\* results as prune_out and prune_err; the exit code of prune is not read.
\* borg_slurm takes the job id from stderr as run_backup does
PruneBackup ==
    /\ pc = "check"
    /\ ~backup_failed(results)
    /\ \E code \in ReturnCodes, out \in OutBytes, err \in ErrBytes :
          /\ calls' = Append(calls,
                 [op |-> "prune", argv |-> prune_command(variant),
                  cwd |-> borg_base,
                  returncode |-> code, out |-> out, err |-> err])
          /\ IF variant = "borg_slurm" /\ regex_search_digits(err) = None
             THEN /\ Raise("AttributeError")
                  /\ UNCHANGED results
             ELSE /\ results' = DictSet(DictSet(results, "prune_out", out),
                                        "prune_err", err)
                  /\ Goto("list")
    /\ trace' = Append(trace, "prune")
    /\ UNCHANGED <<variant, hostname, config, environ, borg_path,
                   borg_exclude, borg_base, running_backup, current_backups,
                   my_addr, notice, attachment_list, tmpfiles, mails,
                   readings, archive_names>>

\* main: current_backups = list_borg_backups(): stdout decoded (borg_slurm),
\* stdout and stderr decoded and joined (borg_systemd); the exit code of
\* list is not read
ListBorgBackups ==
    /\ pc = "list"
    /\ \E p \in ListOutputs :
          /\ calls' = Append(calls,
                 [op |-> "list", argv |-> list_command, out |-> p.out,
                  err |-> p.err])
          /\ current_backups' =
                 IF variant = "borg_slurm"
                 THEN p.out
                 ELSE p.out \o <<"\n\n">> \o p.err
    /\ trace' = Append(trace, "list")
    /\ Goto("notify")
    /\ UNCHANGED <<variant, hostname, config, environ, borg_path,
                   borg_exclude, borg_base, running_backup, results, my_addr,
                   notice, attachment_list, tmpfiles, mails, readings,
                   archive_names>>

\* main: the backup finished: send_borg_results(results, subject, text)
NotifySuccess ==
    /\ pc = "notify"
    /\ SendBorgResults(finished_subject(variant), finished_text(current_backups))
    /\ UNCHANGED <<variant, hostname, config, environ, borg_path,
                   borg_exclude, borg_base, running_backup, results,
                   current_backups, my_addr, calls, mails, readings,
                   archive_names>>

\* send_borg_results' send_mail(subject, text, attachment_list[, address])
\* and what follows it: the with block is left and the directory removed;
\* borg_systemd raises when the SMTP relay refuses, borg_slurm does not read
\* what mail(1) returns; then main exits with the exit code of create after
\* a failure, and returns after a success
SendMail ==
    /\ pc = "mail"
    /\ \E ok \in BOOLEAN :
          /\ mails' = Append(mails,
                 send_mail(variant, notice.subject, notice.text,
                           attachment_list, tmpfiles, my_addr, hostname, ok))
          /\ tmpfiles' = tmpdir_after_exit(tmpfiles, ok \/ variant = "borg_slurm")
          /\ IF variant = "borg_systemd" /\ ~ok
             THEN Raise("ConnectionRefusedError")
             ELSE IF backup_failed(results)
                  THEN Exit(results["return_code"])
                  ELSE Exit(0)
    /\ UNCHANGED <<variant, hostname, config, environ, borg_path,
                   borg_exclude, borg_base, running_backup, results,
                   current_backups, my_addr, notice, attachment_list, calls,
                   trace, readings, archive_names>>

\* one step of main()
Next ==
    \/ SetBorgEnvironment
    \/ ReadVariables
    \/ ConfigLog
    \/ CheckForBorgJob
    \/ SendWarning
    \/ RunBackup
    \/ FindEmailAddress
    \/ NotifyFailure
    \/ PruneBackup
    \/ ListBorgBackups
    \/ NotifySuccess
    \/ SendMail

Spec == Init /\ [][Next]_vars

\* ------------------------------------------------- archive names, two calls

\* a host and a script, before any archive name is generated
InitNames ==
    /\ variant \in Variants
    /\ hostname \in Hosts
    /\ config = <<>>
    /\ environ = EmptyDict
    /\ pc = "names"
    /\ InitLocals
    /\ readings = <<>>
    /\ archive_names = <<>>

\* generate_archive_name() called at two clock readings on the same host
GenerateArchiveNames ==
    /\ pc = "names"
    /\ readings = <<>>
    /\ \E t1 \in ClockReadings, t2 \in ClockReadings :
          /\ readings' = <<t1, t2>>
          /\ archive_names' = <<generate_archive_name(variant, t1, hostname),
                                generate_archive_name(variant, t2, hostname)>>
    /\ UNCHANGED <<variant, hostname, config, environ, pc, borg_path,
                   borg_exclude, borg_base, running_backup, results,
                   current_backups, my_addr, notice, attachment_list,
                   tmpfiles, calls, mails, trace, raised, exit_code>>

NextNames == GenerateArchiveNames

SpecNames == InitNames /\ [][NextNames]_vars

\* ------------------------------------------------------------- properties

\* the subprocesses of kind op run so far
CallIndex(op) == {i \in DOMAIN calls : calls[i].op = op}

\* message m carries an attachment holding bytes b
Attached(m, b) == \E i \in DOMAIN m.attachments : m.attachments[i].content = b

\* text s holds text part somewhere
Contains(s, part) ==
    \E i \in 1..(Len(s) - Len(part) + 1) : SubSeq(s, i, i + Len(part) - 1) = part

\* the run was ended by what the spec itself leaves unreported: no usable
\* ~/.forward, or a mail relay that refuses the message
EnvironmentFailure ==
    \/ raised \in {"FileNotFoundError", "ConnectionRefusedError"}
    \/ raised = "IndexError" /\ variant = "borg_systemd"

\* set_borg_environment raised
LoadFailed == raised \in {"ValueError", "IndexError"} /\ calls = <<>> /\ pc = "done"

\* C1: in both scripts, when create returns a non-zero exit code c, prune
\* and list are never run, and the run ends with exactly one failure mail,
\* carrying the non-empty stdout and stderr of create, and with exit code c.
\* Stated for the runs in which run_backup returned its dict and which no
\* missing ~/.forward or refusing relay ended
C1_CreateFailureReported ==
    \A i \in CallIndex("create") :
        calls[i].returncode # 0 =>
            /\ CallIndex("prune") = {}
            /\ CallIndex("list") = {}
            /\ (pc = "done" /\ "return_code" \in DOMAIN results
                /\ ~EnvironmentFailure) =>
                  /\ Len(mails) = 1
                  /\ mails[1].subject = failed_subject(variant, calls[i].returncode)
                  /\ calls[i].out # <<>> => Attached(mails[1], calls[i].out)
                  /\ calls[i].err # <<>> => Attached(mails[1], calls[i].err)
                  /\ exit_code = calls[i].returncode

\* C2: in borg_slurm, once check_for_borg_job has reported an active job, no
\* create, prune or list subprocess is run, at most one mail is sent, and
\* the run ends with exactly one mail, the warning naming the job and its
\* id, and exit code 0
C2_ActiveJobSkipsBackup ==
    (variant = "borg_slurm" /\ running_backup[1]) =>
        /\ CallIndex("create") = {}
        /\ CallIndex("prune") = {}
        /\ CallIndex("list") = {}
        /\ Len(mails) <= 1
        /\ pc = "done" =>
              /\ Len(mails) = 1
              /\ mails[1].subject = warning_subject
              /\ Contains(mails[1].text, job_name)
              /\ \A i \in CallIndex("squeue") :
                    Contains(mails[1].text, split(calls[i].out, "\n")[2])
              /\ mails[1].attachments = <<>>
              /\ exit_code = 0
              /\ raised = "none"

\* C2 witness: a run that found job 7 active and ended after its warning
C2_Witness ==
    /\ variant = "borg_slurm"
    /\ pc = "done"
    /\ running_backup = <<TRUE, <<"7">>>>
    /\ Len(mails) = 1
    /\ exit_code = 0

\* C3: in both scripts, when create returns 0 and prune a non-zero exit
\* code, the run still runs list and ends with one mail with the subject
\* 'Backup script finished at ...', carrying the non-empty stdout and stderr
\* of prune, and with exit code 0.  Stated for the runs in which prune_backup
\* returned its dict and which no refusing relay ended
C3_PruneFailureIsSoft ==
    \A i \in CallIndex("create"), j \in CallIndex("prune") :
        (calls[i].returncode = 0 /\ calls[j].returncode # 0
         /\ pc = "done" /\ "prune_out" \in DOMAIN results
         /\ ~EnvironmentFailure) =>
            /\ CallIndex("list") # {}
            /\ Len(mails) = 1
            /\ mails[1].subject = finished_subject(variant)
            /\ calls[j].out # <<>> => Attached(mails[1], calls[j].out)
            /\ calls[j].err # <<>> => Attached(mails[1], calls[j].err)
            /\ exit_code = 0

\* C4: in both scripts, a run that has started create does not end before a
\* message has been handed to send_mail
C4_NotifiedAfterCreate ==
    (pc = "done" /\ CallIndex("create") # {}) => Len(mails) >= 1

\* every row of the file has a key, and the key is allowed
KeysAllowed ==
    \A i \in DOMAIN config :
        Len(config[i]) >= 1 /\ InList(config[i][1], allowed_variables(variant))

\* some row of the file has a key that is not allowed
SomeKeyRefused ==
    \E i \in DOMAIN config :
        Len(config[i]) >= 1 /\ ~InList(config[i][1], allowed_variables(variant))

\* every row of the file has a key and a value
TwoColumns == \A i \in DOMAIN config : Len(config[i]) >= 2

\* row i is the last row of the file that gives its key
LastForKey(i) ==
    \A j \in DOMAIN config : (j > i /\ Len(config[j]) >= 1) => config[j][1] # config[i][1]

\* the environment gives every key of the file the value of its last row
ValuesRetrievable ==
    \A i \in DOMAIN config :
        (Len(config[i]) >= 2 /\ LastForKey(i)) =>
            getenv(environ, config[i][1]) = config[i][2]

\* no subprocess has been run and nothing mailed
NothingInvoked == calls = <<>> /\ mails = <<>> /\ trace = <<>>

\* C5 as claimed: for any rows, if every row's key is in allowed_variables,
\* loading succeeds and the environment gives each key the value of the
\* file; if some row's key is outside allowed_variables, loading fails and
\* no subprocess is ever run
C5_ConfigLoad ==
    pc # "start" =>
        /\ KeysAllowed => (~LoadFailed /\ ValuesRetrievable)
        /\ SomeKeyRefused => (LoadFailed /\ NothingInvoked)

\* C5 amended: if every row has a key and a value and every key is in
\* allowed_variables, loading succeeds and the environment gives each key
\* the value of the last row that gives it; if some row's key is outside
\* allowed_variables, loading fails and no subprocess is ever run
C5_ConfigLoadTwoColumns ==
    pc # "start" =>
        /\ (TwoColumns /\ KeysAllowed) => (~LoadFailed /\ ValuesRetrievable)
        /\ SomeKeyRefused => (LoadFailed /\ NothingInvoked)

\* C5 witness: a file that gives BORG_EXCLUDE twice has been loaded, and the
\* environment holds the second value
C5_Witness ==
    /\ pc = "variables"
    /\ Len(config) = 2
    /\ TwoColumns
    /\ config[1][1] = <<"BORG_EXCLUDE">>
    /\ config[2][1] = <<"BORG_EXCLUDE">>
    /\ config[1][2] # config[2][2]
    /\ environ[<<"BORG_EXCLUDE">>] = config[2][2]

\* seconds from the start of the month to clock reading t
SecondsOf(t) == ((t.day * 24 + t.hour) * 60 + t.minute) * 60 + t.second

\* the readings are in the same minute of the same day
SameMinute(t1, t2) ==
    /\ t1.year = t2.year /\ t1.month = t2.month /\ t1.day = t2.day
    /\ t1.hour = t2.hour /\ t1.minute = t2.minute

\* reading t2 is at least one minute after reading t1
MinuteApart(t1, t2) ==
    \/ SecondsOf(t2) - SecondsOf(t1) > 60
    \/ SecondsOf(t2) - SecondsOf(t1) = 60 /\ t2.microsecond >= t1.microsecond

SendBorgResultsCalled == DOMAIN notice # {}

\* some captured stream of the result record is empty
SomeStreamEmpty ==
    \E i \in DOMAIN Streams :
        Streams[i][1] \in DOMAIN results /\ results[Streams[i][1]] = <<>>

\* C7: in both scripts send_borg_results writes an attachment file for a
\* captured stream only if the stream is not empty, no message carries an
\* empty attachment, and a result record with an empty stream still has its
\* message handed to send_mail
C7_NoEmptyAttachment ==
    /\ \A f \in DOMAIN tmpfiles : tmpfiles[f] # <<>>
    /\ \A i \in DOMAIN Streams :
          Streams[i][2] \in DOMAIN tmpfiles =>
              /\ Streams[i][1] \in DOMAIN results
              /\ results[Streams[i][1]] # <<>>
    /\ \A m \in DOMAIN mails : \A a \in DOMAIN mails[m].attachments :
          mails[m].attachments[a].content # <<>>
    /\ (SendBorgResultsCalled /\ SomeStreamEmpty /\ pc = "done") =>
          \E m \in DOMAIN mails : mails[m].subject = notice.subject

\* the create command line the claim describes for script v, exclusion
\* patterns E, archive name name and paths P
ExpectedCreate(v, E, name, P) ==
    (IF v = "borg_slurm"
     THEN << <<"salloc">>, <<"--job-name=", "borgbackup">>,
             <<"--cpus-per-task=1">>, <<"--nice=1">>,
             <<"borg">>, <<"create">>,
             <<"--verbose">>, <<"--compression">>, <<"auto,lz4">> >>
     ELSE << <<"borg">>, <<"create">>,
             <<"--verbose">>, <<"--compression">>, <<"auto,lz4">>,
             <<"--lock-wait">>, <<"600">> >>)
    \o [k \in 1..(2 * Len(E)) |->
          IF k % 2 = 1 THEN <<"--exclude">> ELSE E[k \div 2]]
    \o <<name>>
    \o P

\* the exclusion patterns the configuration gives: none for an empty
\* BORG_EXCLUDE
ConfiguredExcludes ==
    IF getenv(environ, <<"BORG_EXCLUDE">>) = <<>>
    THEN <<>>
    ELSE split(getenv(environ, <<"BORG_EXCLUDE">>), ",")

\* C8: in both scripts create is run in BORG_BASE with the fixed flags, then
\* one '--exclude <e>' pair per configured pattern in configured order (none
\* when no pattern is configured), then the one archive name
\* '::<timestamp>_<hostname>', then every configured path in order
C8_CreateCommandLine ==
    \A i \in CallIndex("create") :
        /\ calls[i].cwd = getenv(environ, <<"BORG_BASE">>)
        /\ \E t \in RunClock :
              calls[i].argv =
                  ExpectedCreate(variant, ConfiguredExcludes,
                      <<"::">> \o isoformat(
                          [t EXCEPT !.microsecond = 0,
                                    !.second = IF variant = "borg_slurm"
                                               THEN 0 ELSE t.second], "_")
                      \o <<"_">> \o hostname,
                      split(getenv(environ, <<"BORG_PATH">>), ","))

\* C9: the attachment files exist only while send_borg_results is at its
\* send_mail call: none before the notification step, none once it has
\* returned or raised, whether the mail was delivered or not
C9_TmpfilesScoped == pc # "mail" => DOMAIN tmpfiles = {}

\* C9 witness: borg_systemd had attachment files written, the relay refused
\* the message, and the run has ended with no file left
C9_Witness ==
    /\ pc = "done"
    /\ raised = "ConnectionRefusedError"
    /\ Len(mails) = 1
    /\ Len(mails[1].attachments) = 2
    /\ ~mails[1].delivered
    /\ DOMAIN tmpfiles = {}

\* the place of an external step in a run
StepRank(step) ==
    CASE step = "probe" -> 1
      [] step = "create" -> 2
      [] step = "prune" -> 3
      [] step = "list" -> 4
      [] step = "notify" -> 5

\* C10: the external steps of a run are started in the order probe (only in
\* borg_slurm), create, prune, list, notify, each at most once; prune only
\* after create has returned exit code 0, list only after prune has ended,
\* and the success notification only after list has ended
C10_StepOrder ==
    /\ \A i \in DOMAIN trace : \A j \in DOMAIN trace :
          i < j => StepRank(trace[i]) < StepRank(trace[j])
    /\ variant = "borg_systemd" => \A i \in DOMAIN trace : trace[i] # "probe"
    /\ \A j \in DOMAIN trace :
          trace[j] = "prune" =>
              \E i \in CallIndex("create") : calls[i].returncode = 0
    /\ \A j \in CallIndex("prune") :
          \E i \in CallIndex("create") : i < j /\ calls[i].returncode = 0
    /\ \A j \in CallIndex("list") : \E i \in CallIndex("prune") : i < j
    /\ (SendBorgResultsCalled /\ notice.subject = finished_subject(variant)) =>
          CallIndex("list") # {}

\* C10 witness: a run of borg_systemd that went through create, prune, list
\* and the success notification
C10_Witness ==
    /\ variant = "borg_systemd"
    /\ pc = "done"
    /\ trace = <<"create", "prune", "list", "notify">>
    /\ Len(mails) = 1
    /\ mails[1].subject = finished_subject(variant)
    /\ exit_code = 0

\* the first row of the file whose key is outside allowed_variables
FirstRefused ==
    CHOOSE i \in DOMAIN config :
        /\ Len(config[i]) >= 1
        /\ ~InList(config[i][1], allowed_variables(variant))
        /\ \A j \in 1..(i - 1) :
              Len(config[j]) >= 1 => InList(config[j][1], allowed_variables(variant))

\* the rows before row i that give key k
RowsGiving(k, i) == {j \in 1..(i - 1) : Len(config[j]) >= 2 /\ config[j][1] = k}

\* environment env with the rows before row i assigned in file order: a
\* key given by some of these rows has the value of the last of them, every
\* other key is as in env
AssignedBefore(env, i) ==
    [k \in (DOMAIN env) \cup {config[j][1] : j \in {n \in 1..(i - 1) : Len(config[n]) >= 2}} |->
        IF RowsGiving(k, i) # {}
        THEN config[CHOOSE j \in RowsGiving(k, i) : \A n \in RowsGiving(k, i) : n <= j][2]
        ELSE env[k]]

SqueueLines(i) == split(calls[i].out, "\n")

\* C12: in borg_slurm create is run only after a probe that ended and
\* reported no active job, that is, whose squeue output has a second line
\* and that line is empty; a probe whose output has no second line ends the
\* run with no create run and no message sent
C12_CreateOnlyAfterIdleProbe ==
    variant = "borg_slurm" =>
        /\ \A i \in CallIndex("create") :
              \E j \in CallIndex("squeue") :
                  /\ j < i
                  /\ Len(SqueueLines(j)) >= 2
                  /\ SqueueLines(j)[2] = <<>>
                  /\ running_backup = <<FALSE, <<>>>>
        /\ \A j \in CallIndex("squeue") :
              Len(SqueueLines(j)) < 2 =>
                  /\ pc = "done"
                  /\ raised = "IndexError"
                  /\ exit_code = UncaughtExit
                  /\ CallIndex("create") = {}
                  /\ mails = <<>>
                  /\ trace = <<"probe">>

\* C12 witness: squeue printed nothing, and the run of borg_slurm has ended
\* on that with no create and no mail
C12_Witness ==
    /\ variant = "borg_slurm"
    /\ pc = "done"
    /\ Len(calls) = 1
    /\ calls[1].op = "squeue"
    /\ calls[1].out = <<>>
    /\ raised = "IndexError"
    /\ mails = <<>>

====
